---------------------------- MODULE Spec2Model ----------------------------
(***************************************************************************)
(* Aero Visit wind tunnel engine (src/app.js).                             *)
(*                                                                         *)
(* src/app.js holds two engines: the particle engine (Particle, Sparkle,   *)
(* PaperAirplane with launch, WindTunnel with setWindSpeed; lines 1-1021)  *)
(* and the streamline engine (Streamline, PaperAirplane without launch,    *)
(* WindTunnel; lines 1023-1497).  The variable engine says which one a     *)
(* behaviour is about.                                                     *)
(*                                                                         *)
(* Units.  JavaScript numbers are modelled in fixed point:                 *)
(*   lengths          centi-pixels (1 px = 100)                            *)
(*   wind speed       tenths       (wind 3 = 30)                           *)
(*   progress, sines, random draws, factors   thousandths                  *)
(*   angles           micro-radians                                        *)
(*   sparkle life     hundredths                                           *)
(* Math.sin is the operator SinPi (Bhaskara's rational approximation,      *)
(* error below 0.0025); performance.now() and Math.random() are inputs     *)
(* drawn from sample sets.                                                 *)
(***************************************************************************)
EXTENDS Integers, Sequences, FiniteSets, TLC

VARIABLES
  canvas,        \* whether document.getElementById found the tunnel's canvas
  siblingsInert, \* how many of the page's other two tunnels have no canvas
  warnings,      \* console.warn calls made for the tunnel
  resizeTimer,   \* the debounce timer of the window resize handler: ms until
                 \* its callback is due, -1 when none is armed
  sinceResize,   \* ms since the last window resize event, -1 before the first
  burst,         \* resize events since the timer callback last ran (up to 3)
  resizeCalls,   \* runs of the timer callback since the last resize event
  lastEvent,     \* the last event the page received
  engine,        \* "particle" | "streamline": which WindTunnel class
  type,          \* airplane type of the tunnel
  windSpeed,     \* WindTunnel.windSpeed (tenths)
  visible,       \* WindTunnel.visible
  isHovered,     \* WindTunnel.isHovered / hovered
  displayWidth,  \* WindTunnel.displayWidth / canvas._displayW
  displayHeight, \* WindTunnel.displayHeight / canvas._displayH
  airplane,      \* the PaperAirplane object
  poolSize,      \* particles.length / streamlines.length
  pool,          \* particles / streamlines: the objects in order, each named
                 \* by its serial (the number of objects constructed before it)
  serial,        \* Particle / Streamline objects constructed so far
  particle,      \* particles[0] / streamlines[0]
  sparkles,      \* WindTunnel.sparkles
  pending,       \* number of frame callbacks requestAnimationFrame holds
  animationId,   \* WindTunnel.animationId: "null" or "set"
  lastOp,        \* the last call made, with its argument and return value
  launchCalls,   \* updateLaunch calls since the last launch() that took effect
  steps          \* calls made so far (bounded exploration)

\* the tunnel object and the calls made on it
tunnel == << engine, type, windSpeed, visible, isHovered, displayWidth,
             displayHeight, airplane, poolSize, pool, serial, particle, sparkles,
             pending, animationId, lastOp, launchCalls >>

\* the page around the tunnel: its wiring and the window's resize timer
page == << canvas, siblingsInert, warnings, resizeTimer, sinceResize, burst,
           resizeCalls, lastEvent >>

vars == << tunnel, page, steps >>

-----------------------------------------------------------------------------
(* Program constants *)

Types == {"dart", "glider", "tumbler"}

\* WindTunnel.setWindSpeed
MinWind == 10
MaxWind == 100
BaseCount == 80
ExtraCount == 40
InitialCount == 100
InitialWind == 30
StreamlineWind == 100
StreamlineCount == 700

\* wall margins of Particle.update and Streamline.update
ParticleMargin == 3000
StreamlineMargin == 1500

\* PaperAirplane.updateLaunch
BounceStep == 35
ExitMargin == 4000
ReturnFrom == 6000

\* WindTunnel.spawnSparkles, Sparkle.update
SparkleBurst == 25
SparkleDecay == 2

\* defaults of _applySize
DefaultWidthA == 60000
DefaultHeightA == 35000
DefaultWidthB == 50000
DefaultHeightB == 34000

-----------------------------------------------------------------------------
(* Arithmetic *)

Min(a, b) == IF a < b THEN a ELSE b
Max(a, b) == IF a > b THEN a ELSE b
Abs(a) == IF a < 0 THEN -a ELSE a

\* Math.floor(a / b) for b > 0
FloorDiv(a, b) == a \div b

\* Math.round(a / b) for b > 0 (round half up, as Math.round does)
RoundDiv(a, b) == (2 * a + b) \div (2 * b)

\* Math.sin(PI * u / 1000) in thousandths
SinHalf(v) == (4 * v * (1000 - v) * 1000) \div (1250000 - v * (1000 - v))
SinPi(u) ==
  LET v == u % 2000
  IN  IF v <= 1000 THEN SinHalf(v) ELSE -SinHalf(v - 1000)

\* Math.sin(t * k) for the clock reading t = PI * theta / 1000 seconds and
\* k = k10 / 10
SinT(theta, k10) == SinPi((k10 * theta) \div 10)

\* Math.sqrt: the largest r with r * r <= n
RECURSIVE SqrtIter(_, _, _)
SqrtIter(n, lo, hi) ==
  IF lo >= hi THEN lo
  ELSE LET mid == (lo + hi + 1) \div 2
       IN  IF mid * mid <= n THEN SqrtIter(n, mid, hi)
           ELSE SqrtIter(n, lo, mid - 1)
Sqrt(n) == SqrtIter(n, 0, 46340)

-----------------------------------------------------------------------------
(* PaperAirplane, particle engine *)

PlaneWidth(t) == CASE t = "dart" -> 8000 [] t = "glider" -> 6000
                   [] OTHER -> 5000
PlaneHeight(t) == CASE t = "dart" -> 3000 [] t = "glider" -> 10000
                    [] OTHER -> 6000

\* constructor(type, x, y); the fields launch() sets later start undefined (0)
PlaneNew(x, y) ==
  [ homeX |-> x, homeY |-> y, x |-> x, y |-> y, angle |-> 0, wobble |-> 0,
    launched |-> FALSE, launchProgress |-> 0, launchPhase |-> "fly",
    bounceProgress |-> 0, tunnelWidth |-> 0, launchStartX |-> 0,
    launchStartY |-> 0 ]

\* get pos(): scale is 1
PlanePos(a, t) ==
  [ x |-> a.x, y |-> a.y, width |-> PlaneWidth(t), height |-> PlaneHeight(t) ]

\* a glider that sinks with the wind instead of rising
GliderSink(w) == -(35 * w)

\* how far the wind lifts the idle glider: windSpeed * 3.5
GliderLift(w) == 35 * w

\* the idle oscillation of react(windSpeed), at clock reading theta
ReactIdle(a, t, w, theta) ==
  CASE t = "dart" ->
         LET wob == (SinT(theta, 15) * 15 * w) \div 10
         IN  [ a EXCEPT !.wobble = wob, !.angle = wob,
                        !.x = a.homeX + (SinT(theta, 8) * 15) \div 100,
                        !.y = a.homeY + SinT(theta, 12) \div 10 ]
    [] t = "glider" ->
         [ a EXCEPT !.wobble = (SinT(theta, 10) * 30 * w) \div 10,
                    !.angle = (-500) * w + SinT(theta, 6) * 20,
                    !.x = a.homeX + SinT(theta, 5) \div 5,
                    !.y = a.homeY - GliderLift(w) + (SinT(theta, 9) * 3) \div 10 ]
    [] OTHER ->
         LET wob == (SinT(theta, 35) * 12 * w) \div 100
         IN  [ a EXCEPT !.wobble = wob,
                        !.angle = wob + (SinT(theta, 50) * 4 * w) \div 10,
                        !.x = a.homeX + 25 * w + (SinT(theta, 20) * 3) \div 10,
                        !.y = a.homeY + (SinT(theta, 18) * 4 * w) \div 1000 ]

\* react(windSpeed) without its guard: what a missing "if (this.launched)
\* return" would do
ReactUnguarded(a, t, w, theta) == ReactIdle(a, t, w, theta)

\* react(windSpeed)
PlaneReact(a, t, w, theta) ==
  IF a.launched THEN a ELSE ReactIdle(a, t, w, theta)

\* launch(tunnelWidth) without its guard: what a missing "if (this.launched)
\* return" would do
LaunchUnguarded(a, tw) ==
  [ a EXCEPT !.launched = TRUE, !.launchProgress = 0, !.launchPhase = "fly",
             !.bounceProgress = 0, !.tunnelWidth = tw,
             !.launchStartX = a.x, !.launchStartY = a.y ]

\* launch(tunnelWidth)
PlaneLaunch(a, tw) ==
  IF a.launched
    THEN a
    ELSE [ a EXCEPT !.launched = TRUE, !.launchProgress = 0, !.launchPhase = "fly",
                    !.bounceProgress = 0, !.tunnelWidth = tw,
                    !.launchStartX = a.x, !.launchStartY = a.y ]

\* a fly rate too small to finish in time
RateStalled(t) == 2

\* the per-frame progress of the fly phase
Rate(t) == CASE t = "dart" -> 22 [] t = "glider" -> 14 [] OTHER -> 8

\* a fly phase that moves the plane against its progress
FlyXBackward(a, p) == a.launchStartX - (p * (a.tunnelWidth + ExitMargin)) \div 1000

\* a fly phase that ends at the tunnel's right edge
FlyXShort(a, p) == a.launchStartX + (p * (a.tunnelWidth - a.launchStartX)) \div 1000

\* x during the fly phase
FlyX(a, p) == a.launchStartX + (p * (a.tunnelWidth + ExitMargin)) \div 1000

\* the fly phase of updateLaunch()
UpdateFly(a, t) ==
  LET p == a.launchProgress + Rate(t)
      moved ==
        CASE t = "dart" ->
               [ a EXCEPT !.x = FlyX(a, p),
                          !.y = a.launchStartY - SinPi(p) \div 2,
                          !.angle = 0 ]
          [] t = "glider" ->
               [ a EXCEPT !.x = FlyX(a, p),
                          !.y = a.launchStartY - SinPi(p) * 5,
                          !.angle = -(SinPi(p) * 150) ]
          [] OTHER ->
               [ a EXCEPT !.x = FlyX(a, p),
                          !.y = a.launchStartY + 3 * p + (SinPi(6 * p) * 4) \div 5,
                          !.angle = SinPi(8 * p) * 250 ]
      q == [ moved EXCEPT !.launchProgress = p ]
  IN  IF p >= 1000
        THEN [ q EXCEPT !.launchPhase = "bounce", !.bounceProgress = 0 ]
        ELSE q

\* a landing that keeps the eased position instead of snapping to home
LandEased(a) == [ a EXCEPT !.launched = FALSE ]

\* the end of the bounce phase: back to idle, exactly at home
Land(a) == [ a EXCEPT !.launched = FALSE, !.x = a.homeX, !.y = a.homeY,
                      !.angle = 0 ]

\* the bounce phase of updateLaunch()
UpdateBounce(a) ==
  LET b == a.bounceProgress + BounceStep
      bp == Min(b, 1000)
      ease == 1000 - ((1000 - bp) * (1000 - bp) * (1000 - bp)) \div 1000000
      overshoot == (SinPi(3 * bp) * (1000 - bp) * 15) \div 10000
      from == a.tunnelWidth + ReturnFrom
      q == [ a EXCEPT !.bounceProgress = b,
                      !.x = from + ((a.homeX - from) * ease) \div 1000 + overshoot,
                      !.y = a.y + ((a.homeY - a.y) * 8) \div 100,
                      !.angle = (a.angle * 92) \div 100 ]
  IN  IF b >= 1000 THEN Land(q) ELSE q

\* updateLaunch(): the new object; its return value is the new launched
PlaneUpdateLaunch(a, t) ==
  IF ~a.launched THEN a
  ELSE IF a.launchPhase = "fly" THEN UpdateFly(a, t)
  ELSE IF a.launchPhase = "bounce" THEN UpdateBounce(a)
  ELSE a

-----------------------------------------------------------------------------
(* Particle, particle engine.  A particle is                               *)
(*   [x, y, originY, baseSpeed, jitterAmp, r, g, b];                       *)
(* size, opacity and streakFactor only feed draw() and are left out.       *)
(* sin(time * 2 + jitterPhase) and sin(time * 5 + jitterPhase) are the     *)
(* inputs j1 and j2; d holds the Math.random() draws of one call.          *)

\* new Particle(x, y, speed, canvas) as _fillParticles builds it
ParticleNew(W, H, d) ==
  LET y == 3500 + (d.ry * (H - 7000)) \div 1000
  IN  [ x |-> (d.rx * W) \div 1000, y |-> y, originY |-> y,
        baseSpeed |-> 100 + (d.rs * 200) \div 1000,
        jitterAmp |-> 30 + (d.ra * 50) \div 1000,
        r |-> 180 + (d.c * 75) \div 1000, g |-> 210 + (d.c * 45) \div 1000,
        b |-> 255 ]

\* reset()
ParticleReset(p, H, d) ==
  LET y == 3500 + (d.ry * (H - 7000)) \div 1000
  IN  [ p EXCEPT !.x = -(d.rx * 4), !.y = y, !.originY = y ]

\* the type-specific flow of update(), lines 58-112
ParticleFlow(p, w, t, pos, j1, j2, d) ==
  LET speed == (p.baseSpeed * w) \div 50
      jitter == (j1 * p.jitterAmp) \div 1000
      dx == p.x - pos.x
      dy == p.y - pos.y
  IN  CASE t = "dart" ->
             [ p EXCEPT !.x = p.x + speed, !.y = p.y + (jitter * 3) \div 10,
                        !.r = 180 + (d.c * 10) \div 1000, !.g = 215, !.b = 255 ]
        [] t = "glider" ->
             IF /\ Abs(dx) * 10 < pos.width * 7
                /\ Abs(dy) * 10 < pos.height * 12
                /\ dy > 0
               THEN [ p EXCEPT !.y = p.y - (speed * 45) \div 100,
                               !.x = p.x + (speed * 7) \div 10,
                               !.r = 100, !.g = 210, !.b = 140 ]
               ELSE [ p EXCEPT !.x = p.x + speed,
                               !.y = p.y + (jitter * 4) \div 10,
                               !.r = 180, !.g = 220, !.b = 255 ]
        [] OTHER ->
             IF /\ dx > -pos.width /\ dx * 10 < pos.width * 3
                /\ Abs(dy) * 10 < pos.height * 15
                /\ Sqrt(dx * dx + dy * dy) * 10 < pos.width * 15
               THEN [ p EXCEPT !.x = p.x + (speed * 2) \div 10,
                               !.y = p.y + (IF dy > 0 THEN 1 ELSE -1)
                                             * ((speed * 7) \div 10)
                                         + jitter * 2,
                               !.r = 255, !.g = 140 + (d.c * 30) \div 1000,
                               !.b = 80 ]
               ELSE [ p EXCEPT !.x = p.x + (speed * 85) \div 100,
                               !.y = p.y + (jitter * 8) \div 10 + (j2 * 6) \div 100,
                               !.r = 200, !.g = 200, !.b = 255 ]

\* the wall clamp with its upper test against the width instead of the height
ParticleClampWrong(y, W, H, d) ==
  LET y1 == IF y < ParticleMargin THEN ParticleMargin + d.lo ELSE y
  IN  IF y1 > W - ParticleMargin THEN W - ParticleMargin - d.hi ELSE y1

\* "keep within vertical tunnel bounds", lines 118-121
ParticleClamp(y, W, H, d) ==
  LET y1 == IF y < ParticleMargin THEN ParticleMargin + d.lo ELSE y
  IN  IF y1 > H - ParticleMargin THEN H - ParticleMargin - d.hi ELSE y1

\* update(windSpeed, airplaneType, planePos)
ParticleUpdate(p, w, t, pos, W, H, j1, j2, d) ==
  LET q == ParticleFlow(p, w, t, pos, j1, j2, d)
      s == IF q.x > W + 1000 THEN ParticleReset(q, H, d) ELSE q
  IN  [ s EXCEPT !.y = ParticleClamp(s.y, W, H, d) ]

-----------------------------------------------------------------------------
(* Sparkle: [x, y, vx, vy, life]; v is the drawn velocity <<vx, vy>> *)

SparkleNew(x, y, v) == [ x |-> x, y |-> y, vx |-> v[1], vy |-> v[2], life |-> 100 ]

\* a sparkle that does not fade
SparkleUndying(s) ==
  [ x |-> s.x + s.vx, y |-> s.y + s.vy, vy |-> s.vy + 12,
    vx |-> (s.vx * 98) \div 100, life |-> s.life ]

\* update()
SparkleUpdate(s) ==
  [ x |-> s.x + s.vx, y |-> s.y + s.vy, vy |-> s.vy + 12,
    vx |-> (s.vx * 98) \div 100, life |-> s.life - SparkleDecay ]

-----------------------------------------------------------------------------
(* Streamline, streamline engine.  A streamline is                         *)
(*   [x, y, baseY, speed, maxPoints, points, r, g, b];                     *)
(* opacity and thickness only feed draw() and are left out.                *)

\* PaperAirplane of the streamline engine: size times scale (2.2) times 0.5
HalfWidthB(t) == CASE t = "dart" -> 9900 [] OTHER -> 6050
HalfHeightB(t) == CASE t = "dart" -> 3080 [] t = "glider" -> 12100
                    [] OTHER -> 7150

\* react(windSpeed) of the streamline engine: it has no launch state
PlaneReactB(a, t, w, theta) ==
  CASE t = "dart" ->
         [ a EXCEPT !.angle = (SinT(theta, 12) * 8 * w) \div 10,
                    !.x = a.homeX + SinT(theta, 5) \div 10,
                    !.y = a.homeY + (SinT(theta, 7) * 6) \div 100 ]
    [] t = "glider" ->
         [ a EXCEPT !.angle = (-300) * w + SinT(theta, 4) * 10,
                    !.x = a.homeX + SinT(theta, 3) \div 10,
                    !.y = a.homeY - 15 * w + (SinT(theta, 5) * 15) \div 100 ]
    [] OTHER ->
         [ a EXCEPT !.angle = (SinT(theta, 18) * 6 * w) \div 100
                                + (SinT(theta, 25) * 2 * w) \div 10,
                    !.x = a.homeX + 10 * w + (SinT(theta, 10) * 15) \div 100,
                    !.y = a.homeY + (SinT(theta, 8) * 2 * w) \div 1000 ]

\* Math.sqrt(relX * relX + relY * relY); beyond 300 px the larger coordinate
\* stands for the distance (every radius of the engine is below 100 px)
Dist(relX, relY) ==
  IF Abs(relX) > 30000 \/ Abs(relY) > 30000
    THEN Max(Abs(relX), Abs(relY))
    ELSE Sqrt(relX * relX + relY * relY)

\* new Streamline(canvas, yPos) followed by the placement of
\* _buildStreamlines: x anywhere across the tunnel
StreamlineNew(W, H, d) ==
  LET y == 1800 + (d.ry * (H - 3600)) \div 1000
  IN  [ x |-> (d.rx * W) \div 1000, y |-> y, baseY |-> y,
        speed |-> 30 + (d.rs * 45) \div 1000,
        maxPoints |-> 35 + (d.rm * 25) \div 1000,
        points |-> << >>, r |-> 120, g |-> 180, b |-> 255 ]

\* a push of full strength up to the radius
PushFlat(R, dist, k) == k

\* pushStrength and scatter: (1 - dist / radius) * k, k in thousandths
PushStrength(R, dist, k) == ((R - dist) * k) \div R

\* the displacement and colour of update(), lines 1051-1128:
\* [dx, dy, r, g, b].  n1 is sin(performance.now() / 80 + baseY * 0.1).
StreamlineFlow(s, w, t, px, py, n1, d) ==
  LET spd == (s.speed * w) \div 30
      pw == HalfWidthB(t)
      ph == HalfHeightB(t)
      relX == s.x - px
      relY == s.y - py
      dist == Dist(relX, relY)
      sgn == IF relY > 0 THEN 1 ELSE -1
      inZone == Abs(relX) < pw /\ Abs(relY) < ph
      approaching == relX * 10 > -(pw * 2) /\ relX * 10 < pw * 7
      nearBody == Abs(relY) * 10 < ph * 8
      keep == [ dx |-> -spd, dy |-> 0, r |-> s.r, g |-> s.g, b |-> s.b ]
      plain == [ keep EXCEPT !.r = 120, !.g = 180, !.b = 255 ]
  IN  CASE t = "dart" ->
             IF inZone \/ (approaching /\ nearBody)
               THEN LET R == pw \div 2
                        in == dist < R /\ dist > 0
                        push == PushStrength(R, dist, 4000)
                        m1 == IF in THEN (spd * 75) \div 100 ELSE spd
                        m2 == IF relX < 0 THEN (m1 * 11) \div 10 ELSE m1
                    IN  [ dx |-> -m2,
                          dy |-> IF in THEN sgn * ((push * spd) \div 1000) ELSE 0,
                          r |-> 100, g |-> 210, b |-> 255 ]
               ELSE plain
        [] t = "glider" ->
             LET wingSpan == (ph * 8) \div 10
                 nearWings == Abs(relX) * 10 < pw * 6 /\ Abs(relY) < wingSpan
             IN  IF nearWings \/ (approaching /\ Abs(relY) < wingSpan)
                   THEN LET R == (Max(pw, ph) * 6) \div 10
                            in == dist < R /\ dist > 0
                            push == PushStrength(R, dist, 4500)
                            c1 == IF ~in THEN keep
                                  ELSE IF relY > 0
                                    THEN [ dx |-> -((spd * 7) \div 10),
                                           dy |-> -((push * spd * 15) \div 10000),
                                           r |-> 50, g |-> 235, b |-> 100 ]
                                    ELSE [ dx |-> -((spd * 7) \div 10),
                                           dy |-> (push * spd * 6) \div 10000,
                                           r |-> 100, g |-> 210, b |-> 255 ]
                        IN  IF relX * 100 < -(pw * 15)
                              THEN [ c1 EXCEPT !.dy = c1.dy - (spd * 35) \div 100,
                                               !.r = 80, !.g = 225, !.b = 120 ]
                              ELSE c1
                   ELSE plain
        [] OTHER ->
             LET bluntRadius == (Max(pw, ph) * 75) \div 100
                 nearFront == relX * 10 < pw * 7 /\ relX * 10 > -(pw * 3)
             IN  IF (nearFront /\ nearBody) \/ dist < bluntRadius
                   THEN IF relX > 0
                          THEN LET scatter == PushStrength(bluntRadius, dist, 6000)
                               IN  [ dx |-> -(spd \div 10),
                                     dy |-> sgn * ((scatter * spd) \div 1000),
                                     r |-> 255, g |-> 100, b |-> 60 ]
                          ELSE [ dx |-> -((spd * 4) \div 10),
                                 dy |-> (((n1 * 35) \div 100 + (d.n - 500) \div 2) * w)
                                          \div 50,
                                 r |-> 255, g |-> 140, b |-> 80 ]
                   ELSE plain

\* the wall clamp, lines 1133-1134
StreamlineClamp(y, H) ==
  LET y1 == IF y < StreamlineMargin THEN StreamlineMargin ELSE y
  IN  IF y1 > H - StreamlineMargin THEN H - StreamlineMargin ELSE y1

\* a trail that is never cut
TrailPushUncapped(points, pt, cap) == Append(points, pt)

\* points.push(...) and the shift of the oldest sample, lines 1136-1137
TrailPush(points, pt, cap) ==
  LET all == Append(points, pt)
  IN  IF Len(all) > cap THEN Tail(all) ELSE all

\* a recycle that leaves the trail as it is
RecycleKeepTrail(q, W, d) == [ q EXCEPT !.x = W + (d.rx * 4), !.y = q.baseY ]

\* a recycle that puts the streamline at the left edge, as Particle.reset does
RecycleAtLeft(q, W, d) ==
  [ q EXCEPT !.x = d.rx * 4, !.y = q.baseY, !.points = << >> ]

\* the recycle of update(), lines 1139-1143: back to the right edge, on the
\* streamline's own row, with an empty trail
StreamlineRecycle(q, W, d) ==
  [ q EXCEPT !.x = W + (d.rx * 4), !.y = q.baseY, !.points = << >> ]

\* update(windSpeed, type, plane); W and H are canvas._displayW/_displayH
StreamlineUpdate(s, w, t, px, py, W, H, n1, d) ==
  LET f == StreamlineFlow(s, w, t, px, py, n1, d)
      x1 == s.x + f.dx
      y1 == StreamlineClamp(s.y + f.dy, H)
      pts == TrailPush(s.points,
                       [ x |-> x1, y |-> y1, r |-> f.r, g |-> f.g, b |-> f.b ],
                       s.maxPoints)
      q == [ s EXCEPT !.x = x1, !.y = y1, !.points = pts,
                      !.r = f.r, !.g = f.g, !.b = f.b ]
  IN  IF x1 < -2000 THEN StreamlineRecycle(q, W, d) ELSE q

-----------------------------------------------------------------------------
(* Inputs of the environment *)

\* getBoundingClientRect(): <<width, height>>; <<0, 0>> is a canvas that is
\* not laid out
Rects == { <<0, 0>>, <<60000, 35000>>, <<42000, 26000>> }

\* the Math.random() draws of one call: rx, ry place a particle, the others
\* share one value
Draw(rx, ry, k) ==
  [ rx |-> rx, ry |-> ry, rs |-> k, ra |-> k, c |-> k, lo |-> k, hi |-> k,
    rm |-> k, n |-> k ]

\* the clock and noise readings of one frame: theta is performance.now(),
\* j1, j2 and n1 the sines a particle takes of it with its own phase
Frame(theta, j1, j2, n1) == [ theta |-> theta, j1 |-> j1, j2 |-> j2, n1 |-> n1 ]

\* arguments of setWindSpeed (tenths): below, inside and above [1, 10],
\* integers and fractions
WindInputs == { -20, 10, 12, 37, 50, 100, 130 }

\* velocities drawn for the sparkles of a burst
SparkleDraws == { << 300, -400 >> }

-----------------------------------------------------------------------------
(* WindTunnel *)

\* _applySize() of the particle engine: the new <<displayWidth, displayHeight>>
ApplySizeA(W, H, rect) ==
  IF rect[1] > 0
    THEN << rect[1], IF rect[2] # 0 THEN rect[2] ELSE DefaultHeightA >>
    ELSE << W, H >>

\* _applySize() of the streamline engine
ApplySizeB(rect) ==
  << IF rect[1] # 0 THEN rect[1] ELSE DefaultWidthB,
     IF rect[2] # 0 THEN rect[2] ELSE DefaultHeightB >>

\* the home of the airplane for a display size
HomeXA(W) == (W * 38) \div 100
HomeXB(W) == (W * 45) \div 100
HomeY(H) == H \div 2

\* a refill that throws the pool away and builds target new particles
FillRebuild(ps, target, next) == [ i \in 1 .. target |-> next + i - 1 ]

\* _fillParticles(target): particles are pushed until the pool holds target of
\* them, then popped while it holds more; next is the serial of the first
\* particle constructed
FillParticles(ps, target, next) ==
  IF Len(ps) < target
    THEN ps \o [ i \in 1 .. target - Len(ps) |-> next + i - 1 ]
    ELSE SubSeq(ps, 1, target)

\* _buildStreamlines(): count new streamlines replace the old ones
BuildStreamlines(next) == [ i \in 1 .. StreamlineCount |-> next + i - 1 ]

\* a pool size rounded to the nearest particle instead of down
TargetRounded(ws) == BaseCount + RoundDiv(ws * ExtraCount, 100)

\* a pool size that shrinks with the wind
TargetInverted(ws) == BaseCount + FloorDiv((110 - ws) * ExtraCount, 100)

\* the pool size setWindSpeed asks for: 80 + floor((windSpeed / 10) * 40)
Target(ws) == BaseCount + FloorDiv(ws * ExtraCount, 100)

\* a setWindSpeed that stores its argument as given
NoClamp(v) == v

\* Math.max(1, Math.min(10, speed))
ClampWind(v) == Max(MinWind, Min(MaxWind, v))

\* the sparkle pass of animate(), lines 903-909: every sparkle is updated and
\* the ones whose life ran out are spliced away
RECURSIVE SparklePass(_)
SparklePass(ss) ==
  IF ss = << >> THEN << >>
  ELSE LET u == SparkleUpdate(Head(ss))
       IN  IF u.life <= 0 THEN SparklePass(Tail(ss))
           ELSE << u >> \o SparklePass(Tail(ss))

\* spawnSparkles(): 25 sparkles at the airplane
SpawnSparkles(ss, a, f) ==
  ss \o [ i \in 1 .. SparkleBurst |-> SparkleNew(a.x, a.y, f[i]) ]

\* a frame that is drawn although the tunnel is off screen
DrawsOffscreen(vis) == TRUE

\* a visibility test turned around: frames drawn only while off screen
DrawsWhenHidden(vis) == ~vis

\* whether animate() goes past its visibility test
Draws(vis) == vis

\* the body of animate() of the particle engine
AnimateA(fr, d) ==
  /\ IF Draws(visible)
       THEN /\ particle' = ParticleUpdate(particle, windSpeed, type,
                                          PlanePos(airplane, type), displayWidth,
                                          displayHeight, fr.j1, fr.j2, d)
            /\ airplane' = IF airplane.launched
                             THEN PlaneUpdateLaunch(airplane, type)
                             ELSE PlaneReact(airplane, type, windSpeed, fr.theta)
            /\ launchCalls' = IF airplane.launched THEN launchCalls + 1
                                ELSE launchCalls
            /\ sparkles' = SparklePass(sparkles)
       ELSE UNCHANGED << particle, airplane, launchCalls, sparkles >>
  /\ animationId' = "set"
  /\ UNCHANGED << engine, type, windSpeed, visible, isHovered, displayWidth,
                  displayHeight, poolSize, pool, serial >>

\* the body of animate() of the streamline engine
AnimateB(fr, d) ==
  /\ IF Draws(visible)
       THEN /\ particle' = StreamlineUpdate(particle, windSpeed, type,
                                            airplane.x, airplane.y, displayWidth,
                                            displayHeight, fr.n1, d)
            /\ airplane' = PlaneReactB(airplane, type, windSpeed, fr.theta)
       ELSE UNCHANGED << particle, airplane >>
  /\ animationId' = "set"
  /\ UNCHANGED << engine, type, windSpeed, visible, isHovered, displayWidth,
                  displayHeight, poolSize, pool, serial, launchCalls, sparkles >>

Animate(fr, d) == IF engine = "particle" THEN AnimateA(fr, d) ELSE AnimateB(fr, d)

-----------------------------------------------------------------------------
(* Construction *)

\* new WindTunnel(canvasId, type) of engine e, the canvas laid out as rect
Construct(e, t, rect, d) ==
  LET size == IF e = "particle"
                THEN ApplySizeA(DefaultWidthA, DefaultHeightA, rect)
                ELSE ApplySizeB(rect)
      W == size[1]
      H == size[2]
  IN  /\ engine = e
      /\ type = t
      /\ windSpeed = IF e = "particle" THEN InitialWind ELSE StreamlineWind
      /\ visible = TRUE
      /\ isHovered = FALSE
      /\ displayWidth = W
      /\ displayHeight = H
      /\ airplane = PlaneNew(IF e = "particle" THEN HomeXA(W) ELSE HomeXB(W),
                             HomeY(H))
      /\ pool = IF e = "particle" THEN FillParticles(<< >>, InitialCount, 0)
                                  ELSE BuildStreamlines(0)
      /\ poolSize = Len(pool)
      /\ serial = Len(pool)
      /\ particle = IF e = "particle" THEN ParticleNew(W, H, d)
                                      ELSE StreamlineNew(W, H, d)
      /\ sparkles = << >>
      /\ pending = 0
      /\ animationId = "null"
      /\ lastOp = [ op |-> "new", arg |-> 0, ret |-> FALSE ]
      /\ launchCalls = 0
      /\ steps = 0

\* the page of a tunnel that has its canvas, before any event
PageIdle ==
  /\ canvas = TRUE
  /\ siblingsInert = 0
  /\ warnings = 0
  /\ resizeTimer = -1
  /\ sinceResize = -1
  /\ burst = 0
  /\ resizeCalls = 0
  /\ lastEvent = "none"

-----------------------------------------------------------------------------
(* Operations: calls of the tunnel's methods.  None of them constrains      *)
(* steps or the page: each specification does.                              *)

Did(op, arg, ret) == lastOp' = [ op |-> op, arg |-> arg, ret |-> ret ]

\* a frame callback runs animate(): one pending callback is consumed and
\* animate() requests the next
Tick(fr, d) ==
  /\ pending > 0
  /\ Animate(fr, d)
  /\ pending' = (pending - 1) + 1
  /\ Did("animate", 0, FALSE)

\* the direct call of animate() that starts the loop (lines 1020, 1495)
StartAnimate(fr, d) ==
  /\ animationId = "null"
  /\ Animate(fr, d)
  /\ pending' = pending + 1
  /\ Did("start", 0, FALSE)

\* setWindSpeed(speed); particles[0] survives every refill, the pool never
\* being emptied
SetWindSpeed(v) ==
  /\ engine = "particle"
  /\ windSpeed' = ClampWind(v)
  /\ pool' = FillParticles(pool, Target(windSpeed'), serial)
  /\ poolSize' = Len(pool')
  /\ serial' = serial + Max(0, Len(pool') - Len(pool))
  /\ Did("setWindSpeed", v, FALSE)
  /\ UNCHANGED << engine, type, visible, isHovered, displayWidth, displayHeight,
                  airplane, particle, sparkles, pending, animationId,
                  launchCalls >>

\* a resize that moves the airplane home even in the middle of a launch
ResizePlaneSnap(a, hx, hy) ==
  [ a EXCEPT !.homeX = hx, !.homeY = hy, !.x = hx, !.y = hy ]

\* a resize that ends a launch and puts the airplane home
ResizePlaneLand(a, hx, hy) ==
  [ a EXCEPT !.homeX = hx, !.homeY = hy, !.x = hx, !.y = hy,
             !.launched = FALSE ]

\* what resize() of the particle engine does to the airplane, lines 704-710:
\* the home is moved, and the airplane with it unless it is launched
ResizePlane(a, hx, hy) ==
  IF a.launched
    THEN [ a EXCEPT !.homeX = hx, !.homeY = hy ]
    ELSE [ a EXCEPT !.homeX = hx, !.homeY = hy, !.x = hx, !.y = hy ]

\* resize()
Resize(rect, d) ==
  /\ IF engine = "particle"
       THEN LET size == ApplySizeA(displayWidth, displayHeight, rect)
                hx == HomeXA(size[1])
                hy == HomeY(size[2])
            IN  /\ displayWidth' = size[1]
                /\ displayHeight' = size[2]
                /\ airplane' = ResizePlane(airplane, hx, hy)
                /\ UNCHANGED << particle, pool, serial >>
       ELSE LET size == ApplySizeB(rect)
                hx == HomeXB(size[1])
                hy == HomeY(size[2])
            IN  /\ displayWidth' = size[1]
                /\ displayHeight' = size[2]
                /\ airplane' = [ airplane EXCEPT !.homeX = hx, !.homeY = hy,
                                                 !.x = hx, !.y = hy ]
                /\ particle' = StreamlineNew(size[1], size[2], d)
                /\ pool' = BuildStreamlines(serial)
                /\ serial' = serial + StreamlineCount
  /\ Did("resize", 0, FALSE)
  /\ UNCHANGED << engine, type, windSpeed, visible, isHovered, poolSize,
                  sparkles, pending, animationId, launchCalls >>

\* the click handler of the launch button, lines 967-984
LaunchClick(f) ==
  /\ engine = "particle"
  /\ IF airplane.launched
       THEN UNCHANGED << airplane, sparkles, launchCalls >>
       ELSE /\ airplane' = PlaneLaunch(airplane, displayWidth)
            /\ sparkles' = SpawnSparkles(sparkles, airplane', f)
            /\ launchCalls' = 0
  /\ Did("click", 0, FALSE)
  /\ UNCHANGED << engine, type, windSpeed, visible, isHovered, displayWidth,
                  displayHeight, poolSize, pool, serial, particle, pending,
                  animationId >>

\* airplane.launch(tunnelWidth)
CallLaunch(tw) ==
  /\ engine = "particle"
  /\ airplane' = PlaneLaunch(airplane, tw)
  /\ launchCalls' = IF airplane.launched THEN launchCalls ELSE 0
  /\ Did("launch", tw, FALSE)
  /\ UNCHANGED << engine, type, windSpeed, visible, isHovered, displayWidth,
                  displayHeight, poolSize, pool, serial, particle, sparkles,
                  pending, animationId >>

\* airplane.updateLaunch()
CallUpdateLaunch ==
  /\ engine = "particle"
  /\ airplane' = PlaneUpdateLaunch(airplane, type)
  /\ launchCalls' = IF airplane.launched THEN launchCalls + 1 ELSE launchCalls
  /\ Did("updateLaunch", 0, airplane'.launched)
  /\ UNCHANGED << engine, type, windSpeed, visible, isHovered, displayWidth,
                  displayHeight, poolSize, pool, serial, particle, sparkles,
                  pending, animationId >>

\* airplane.react(windSpeed)
CallReact(w, theta) ==
  /\ airplane' = IF engine = "particle"
                   THEN PlaneReact(airplane, type, w, theta)
                   ELSE PlaneReactB(airplane, type, w, theta)
  /\ Did("react", w, FALSE)
  /\ UNCHANGED << engine, type, windSpeed, visible, isHovered, displayWidth,
                  displayHeight, poolSize, pool, serial, particle, sparkles,
                  pending, animationId, launchCalls >>

\* the IntersectionObserver callback, lines 996-1002 and 1480-1484
SetVisible(b) ==
  /\ visible' = b
  /\ Did("observe", 0, b)
  /\ UNCHANGED << engine, type, windSpeed, isHovered, displayWidth,
                  displayHeight, airplane, poolSize, pool, serial, particle,
                  sparkles, pending, animationId, launchCalls >>

\* handleHover(hovered) / the mouseenter and mouseleave listeners
Hover(b) ==
  /\ isHovered' = b
  /\ Did("hover", 0, b)
  /\ UNCHANGED << engine, type, windSpeed, visible, displayWidth,
                  displayHeight, airplane, poolSize, pool, serial, particle,
                  sparkles, pending, animationId, launchCalls >>

\* a cancel that leaves the requested frame pending
CancelNothing(n) == n

\* cancelAnimationFrame(this.animationId) with n frame callbacks pending:
\* the callback of that id, the one requested last, is pending no more
CancelFrame(n) == Max(0, n - 1)

\* stop() of the particle engine, lines 917-922; ret tells whether there was
\* a frame to cancel
Stop ==
  /\ engine = "particle"
  /\ IF animationId # "null"
       THEN /\ pending' = CancelFrame(pending)
            /\ animationId' = "null"
       ELSE UNCHANGED << pending, animationId >>
  /\ Did("stop", 0, animationId # "null")
  /\ UNCHANGED << engine, type, windSpeed, visible, isHovered, displayWidth,
                  displayHeight, airplane, poolSize, pool, serial, particle,
                  sparkles, launchCalls >>

-----------------------------------------------------------------------------
(* SpecPlane: the PaperAirplane of the particle engine driven through its  *)
(* methods, with the resizes of its tunnel.                                *)

MaxResizes == 1

\* clock readings (theta) and wind speeds handed to react
Thetas == { 0, 250 }
WindArgs == { 10, 100 }
LaunchWidths == { 42000, 60000 }

InitPlane ==
  /\ PageIdle
  /\ \E t \in Types, rect \in Rects : Construct("particle", t, rect, Draw(0, 0, 0))

NextPlane ==
  \/ /\ \E w \in WindArgs, theta \in Thetas : CallReact(w, theta)
     /\ UNCHANGED << steps, page >>
  \/ /\ \E tw \in LaunchWidths : CallLaunch(tw)
     /\ UNCHANGED << steps, page >>
  \/ /\ CallUpdateLaunch
     /\ UNCHANGED << steps, page >>
  \/ /\ steps < MaxResizes
     /\ \E rect \in Rects : Resize(rect, Draw(0, 0, 0))
     /\ steps' = steps + 1
     /\ UNCHANGED page

SpecPlane == InitPlane /\ [][NextPlane]_vars

-----------------------------------------------------------------------------
(* Claims about the launch, under SpecPlane *)

Idle == ~airplane.launched
Flying == airplane.launched /\ airplane.launchPhase = "fly"
Returning == airplane.launched /\ airplane.launchPhase = "bounce"

\* C2: launch() called while the airplane is launched, in the fly or in the
\* bounce phase, changes no field of the airplane: launchProgress,
\* launchPhase, bounceProgress, the captured tunnel width and start position,
\* x, y and angle all stay as they were.
C2_LaunchWhileLaunchedIsNoOp ==
  [][ (lastOp'.op = "launch" /\ airplane.launched) => airplane' = airplane ]_vars

\* launch() was called in the bounce phase with a width other than the
\* captured one, and the airplane is still in that phase
C2_Witness ==
  /\ lastOp.op = "launch"
  /\ Returning
  /\ airplane.bounceProgress > 0
  /\ lastOp.arg # airplane.tunnelWidth

\* C3: after launch(), the airplane is idle again within 300 updateLaunch()
\* calls, for every type; updateLaunch() returns true as long as the airplane
\* is still launched after the call and false on the call that lands it and
\* on every later one, which change nothing.
C3_LaunchEndsWithin300Calls ==
  /\ [](airplane.launched => launchCalls < 300)
  /\ [](lastOp.op = "updateLaunch" => lastOp.ret = airplane.launched)
  /\ [][ (lastOp'.op = "updateLaunch" /\ Idle)
           => (airplane' = airplane /\ lastOp'.ret = FALSE) ]_vars

\* the tumbler, the slowest type, has just landed, on its 154th call
C3_Witness ==
  /\ type = "tumbler"
  /\ lastOp.op = "updateLaunch"
  /\ lastOp.ret = FALSE
  /\ Idle
  /\ launchCalls = 154

\* C4: every updateLaunch() call made in the fly phase moves the airplane to
\* a strictly larger x, the first one from the x it had when launch() was
\* called.
C4_FlyingXIncreases ==
  [][ (lastOp'.op = "updateLaunch" /\ Flying) =>
        /\ airplane'.x > airplane.x
        /\ (airplane.launchProgress = 0 => airplane.x = airplane.launchStartX)
    ]_vars

\* an updateLaunch() call in the middle of the fly phase
C4_Witness ==
  /\ lastOp.op = "updateLaunch"
  /\ Flying
  /\ airplane.launchProgress > 500
  /\ airplane.x > airplane.launchStartX

\* C5: the updateLaunch() call that ends the launch puts the airplane exactly
\* at the home the airplane has at that moment, with angle 0.
C5_LandsExactlyAtHome ==
  [][ (lastOp'.op = "updateLaunch" /\ airplane.launched /\ ~airplane'.launched) =>
        /\ airplane'.x = airplane.homeX
        /\ airplane'.y = airplane.homeY
        /\ airplane'.angle = 0
        /\ airplane'.homeX = airplane.homeX
        /\ airplane'.homeY = airplane.homeY
    ]_vars

\* the airplane has landed at a home more than 50 px away from where it was
\* launched: the home a resize set during the launch
C5_Witness ==
  /\ lastOp.op = "updateLaunch"
  /\ lastOp.ret = FALSE
  /\ Idle
  /\ launchCalls > 0
  /\ airplane.x = airplane.homeX
  /\ airplane.y = airplane.homeY
  /\ Abs(airplane.homeX - airplane.launchStartX) > 5000

\* C18 as stated: the airplane is Returning only after a Flying x above
\* tunnelWidth + 40 px, and once x is above tunnelWidth + 40 px the next
\* updateLaunch() call ends the fly phase.
C18_LeavesFlyingPastMargin ==
  [][ (lastOp'.op = "updateLaunch" /\ Flying) =>
        /\ Returning' => airplane'.x > airplane.tunnelWidth + ExitMargin
        /\ airplane.x > airplane.tunnelWidth + ExitMargin => ~Flying'
    ]_vars

\* C18 amended: the fly phase ends in the updateLaunch() call that takes
\* launchProgress to 1 or above, where x is at least launchStartX +
\* tunnelWidth + 40 px and so above tunnelWidth + 40 px; until then the
\* airplane stays Flying, with x below launchStartX + tunnelWidth + 40 px,
\* whether or not x is already above tunnelWidth + 40 px.
C18_LeavesFlyingAtFullProgress ==
  [][ (lastOp'.op = "updateLaunch" /\ Flying) =>
        LET end == airplane.launchStartX + airplane.tunnelWidth + ExitMargin
        IN  IF airplane'.launchProgress >= 1000
              THEN /\ Returning'
                   /\ airplane'.x >= end
                   /\ airplane'.x > airplane.tunnelWidth + ExitMargin
              ELSE /\ Flying'
                   /\ airplane'.x < end
    ]_vars

\* the airplane has just left the fly phase, more than 100 px beyond
\* tunnelWidth + 40 px
C18_Witness ==
  /\ lastOp.op = "updateLaunch"
  /\ Returning
  /\ airplane.bounceProgress = 0
  /\ airplane.launchProgress >= 1000
  /\ airplane.x > airplane.tunnelWidth + ExitMargin + 10000

-----------------------------------------------------------------------------
(* Spec: one tunnel of either engine under every interleaving of its       *)
(* handlers, explored to MaxSteps calls.                                   *)

MaxSteps == 4

Engines == { "particle", "streamline" }
\* the readings and draws of a frame: <<frame, draws>>
TickInputs == { << Frame(0, 0, 0, 0), Draw(0, 0, 0) >>,
                << Frame(250, 1000, -1000, 1000), Draw(999, 500, 999) >> }
InitDraws == { Draw(500, 500, 500) }

Init ==
  /\ PageIdle
  /\ \E e \in Engines, t \in Types, rect \in Rects, d \in InitDraws :
       Construct(e, t, rect, d)

Budget == steps < MaxSteps /\ steps' = steps + 1 /\ UNCHANGED page

Next ==
  \/ Budget /\ \E i \in TickInputs : StartAnimate(i[1], i[2])
  \/ Budget /\ \E i \in TickInputs : Tick(i[1], i[2])
  \/ Budget /\ \E v \in WindInputs : SetWindSpeed(v)
  \/ Budget /\ \E rect \in Rects, d \in InitDraws : Resize(rect, d)
  \/ Budget /\ \E f \in [ 1 .. SparkleBurst -> SparkleDraws ] : LaunchClick(f)
  \/ Budget /\ \E w \in WindArgs, theta \in Thetas : CallReact(w, theta)
  \/ Budget /\ \E b \in BOOLEAN : SetVisible(b)
  \/ Budget /\ \E b \in BOOLEAN : Hover(b)

Spec == Init /\ [][Next]_vars

-----------------------------------------------------------------------------
(* Claims about the tunnel, under Spec *)

\* C6: a frame that finds the tunnel not visible leaves the particle (its
\* position and colour), the airplane (position, angle, launch progress) and
\* the sparkle list as they were, and requests exactly one further frame.
C6_InvisibleFrameChangesNothing ==
  [][ (lastOp'.op \in { "animate", "start" } /\ ~visible) =>
        /\ particle' = particle
        /\ airplane' = airplane
        /\ sparkles' = sparkles
        /\ pending' = (IF lastOp'.op = "animate" THEN pending - 1 ELSE pending) + 1
    ]_vars

\* a frame has run on an invisible tunnel whose airplane is in flight and
\* whose sparkles are alive
C6_Witness ==
  /\ lastOp.op = "animate"
  /\ ~visible
  /\ airplane.launched
  /\ Len(sparkles) = SparkleBurst
  /\ pending = 1

\* C8: after setWindSpeed(v) the stored wind speed is v clamped to [1, 10]:
\* 1 for v below 1, 10 for v above 10, v itself otherwise.
C8_WindSpeedIsClamped ==
  lastOp.op = "setWindSpeed" =>
    windSpeed = (IF lastOp.arg < 10 THEN 10
                 ELSE IF lastOp.arg > 100 THEN 100 ELSE lastOp.arg)

\* setWindSpeed was called with a value above 10 and 10 is stored
C8_Witness ==
  /\ lastOp.op = "setWindSpeed"
  /\ lastOp.arg > 100
  /\ windSpeed = 100

\* C9: after every setWindSpeed call the pool holds between 80 and 120
\* particles, and the pool after setWindSpeed(10) is at least as large as the
\* pool after setWindSpeed(1), whichever of the two calls comes first.
C9_PoolSizeBoundsAndOrder ==
  /\ [](lastOp.op = "setWindSpeed" => (poolSize >= 80 /\ poolSize <= 120))
  /\ [][ (lastOp.op = "setWindSpeed" /\ lastOp'.op = "setWindSpeed") =>
            /\ (lastOp.arg = 10 /\ lastOp'.arg = 100) => poolSize' >= poolSize
            /\ (lastOp.arg = 100 /\ lastOp'.arg = 10) => poolSize' <= poolSize
        ]_vars

\* setWindSpeed(10) has filled the pool to base plus extra
C9_Witness ==
  /\ lastOp.op = "setWindSpeed"
  /\ lastOp.arg = 100
  /\ poolSize = 120
  /\ steps > 1

\* v clamped to [1, 10], in tenths
Clamped(v) == IF v < 10 THEN 10 ELSE IF v > 100 THEN 100 ELSE v

\* C10 as stated: after setWindSpeed(v) the pool holds
\* 80 + round((c / 10) * 40) particles, c being v clamped to [1, 10].
C10_PoolSizeIsRounded ==
  lastOp.op = "setWindSpeed" =>
    \E n \in 0 .. 40 :
      /\ poolSize = 80 + n
      /\ 2 * Clamped(lastOp.arg) * 40 >= (2 * n - 1) * 100
      /\ 2 * Clamped(lastOp.arg) * 40 < (2 * n + 1) * 100

\* C10 amended: after setWindSpeed(v) the pool holds
\* 80 + floor((c / 10) * 40) particles, c being v clamped to [1, 10].
C10_PoolSizeIsFloored ==
  lastOp.op = "setWindSpeed" =>
    \E n \in 0 .. 40 :
      /\ poolSize = 80 + n
      /\ Clamped(lastOp.arg) * 40 >= n * 100
      /\ Clamped(lastOp.arg) * 40 < (n + 1) * 100

\* setWindSpeed(3.7): (3.7 / 10) * 40 = 14.8, and the pool holds 94
C10_Witness ==
  /\ lastOp.op = "setWindSpeed"
  /\ lastOp.arg = 37
  /\ poolSize = 94

\* C11: setWindSpeed never reorders or replaces the particles that survive
\* it: a pool that grows from n to m keeps its n particles in place and gets
\* m - n newly constructed ones behind them, a pool that shrinks to m keeps
\* its first m particles, and particles[0] keeps its state.  A second call
\* with the same value changes neither the pool nor the wind speed and
\* constructs nothing.
C11_PoolResizeKeepsSurvivors ==
  /\ [][ lastOp'.op = "setWindSpeed" =>
            LET n == Len(pool)
                m == Len(pool')
                k == IF n < m THEN n ELSE m
            IN  /\ SubSeq(pool', 1, k) = SubSeq(pool, 1, k)
                /\ \A i \in k + 1 .. m : pool'[i] = serial + (i - k) - 1
                /\ serial' = serial + (m - k)
                /\ particle' = particle
        ]_vars
  /\ [][ (lastOp.op = "setWindSpeed" /\ lastOp'.op = "setWindSpeed"
            /\ lastOp'.arg = lastOp.arg) =>
            /\ pool' = pool
            /\ serial' = serial
            /\ windSpeed' = windSpeed
            /\ particle' = particle
        ]_vars

\* the pool has shrunk to 84 particles and grown again to 120: the first 84
\* are the ones the constructor made, the 85th was made by the last call
C11_Witness ==
  /\ lastOp.op = "setWindSpeed"
  /\ Len(pool) = 120
  /\ pool[84] = 83
  /\ pool[85] = 100
  /\ serial = 136

\* react(windSpeed) of the tunnel's engine, at clock reading theta
React(a, w, theta) ==
  IF engine = "particle" THEN PlaneReact(a, type, w, theta)
                         ELSE PlaneReactB(a, type, w, theta)

\* wind speeds from 1 to 10 in rising order, whole and fractional
LiftWinds == << 10, 11, 20, 30, 40, 50, 55, 60, 70, 80, 90, 99, 100 >>

\* C17: for an idle glider, at the same home and the same time, react puts
\* the airplane at a strictly smaller y the larger the wind speed is, along
\* the wind speeds of LiftWinds; in particular y at wind speed 10 is smaller
\* than y at wind speed 1, and the y a react call leaves is the one of its
\* wind speed.
C17_GliderRisesWithWind ==
  [][ (lastOp'.op = "react" /\ type = "glider" /\ ~airplane.launched) =>
        \E theta \in Thetas :
          /\ airplane' = React(airplane, lastOp'.arg, theta)
          /\ \A i \in 1 .. Len(LiftWinds) - 1 :
                React(airplane, LiftWinds[i + 1], theta).y
                  < React(airplane, LiftWinds[i], theta).y
          /\ React(airplane, MaxWind, theta).y < React(airplane, MinWind, theta).y
    ]_vars

\* react(10) has lifted the idle glider of the particle engine more than
\* 30 px above its home
C17_Witness ==
  /\ engine = "particle"
  /\ type = "glider"
  /\ lastOp.op = "react"
  /\ lastOp.arg = 100
  /\ ~airplane.launched
  /\ airplane.y < airplane.homeY - 3000

\* C13: resize puts the airplane's home at 38 % (particle engine) or 45 %
\* (streamline engine) of the new display width and at half the new display
\* height.  An idle airplane is moved to the new home; an airplane that is
\* launched keeps its x, y, angle, launch phase and launch progress.
C13_ResizeMovesOnlyIdlePlane ==
  [][ lastOp'.op = "resize" =>
        /\ airplane'.homeX = (displayWidth' * (IF engine = "particle" THEN 38 ELSE 45))
                                \div 100
        /\ airplane'.homeY = displayHeight' \div 2
        /\ IF airplane.launched
             THEN /\ airplane'.x = airplane.x
                  /\ airplane'.y = airplane.y
                  /\ airplane'.angle = airplane.angle
                  /\ airplane'.launched
                  /\ airplane'.launchPhase = airplane.launchPhase
                  /\ airplane'.launchProgress = airplane.launchProgress
                  /\ airplane'.bounceProgress = airplane.bounceProgress
             ELSE /\ airplane'.x = airplane'.homeX
                  /\ airplane'.y = airplane'.homeY
    ]_vars

\* the tunnel was resized to a width of 420 px while its airplane was flying:
\* the home has moved and the airplane has not
C13_Witness ==
  /\ lastOp.op = "resize"
  /\ airplane.launched
  /\ airplane.launchProgress > 0
  /\ displayWidth = 42000
  /\ airplane.homeX = 15960
  /\ airplane.x > 22800

-----------------------------------------------------------------------------
(* SpecFlight: a particle-engine tunnel followed frame by frame through    *)
(* whole launches: the loop is started, frames run, the button is clicked  *)
(* and react is called at any moment, up to MaxTicks frames.               *)

MaxTicks == 160

FlightInputs == { << Frame(250, 1000, -1000, 1000), Draw(999, 500, 999) >> }

InitFlight ==
  /\ PageIdle
  /\ \E t \in Types :
       Construct("particle", t, << 60000, 35000 >>, Draw(500, 500, 500))

NextFlight ==
  \/ /\ \E i \in FlightInputs : StartAnimate(i[1], i[2])
     /\ UNCHANGED << steps, page >>
  \/ /\ steps < MaxTicks
     /\ \E i \in FlightInputs : Tick(i[1], i[2])
     /\ steps' = steps + 1
     /\ UNCHANGED page
  \/ /\ \E f \in [ 1 .. SparkleBurst -> SparkleDraws ] : LaunchClick(f)
     /\ UNCHANGED << steps, page >>
  \/ /\ CallReact(windSpeed, 0)
     /\ UNCHANGED << steps, page >>

SpecFlight == InitFlight /\ [][NextFlight]_vars

\* C7: the airplane is always in exactly one of Idle, Flying and Returning,
\* and while it is not Idle a react() call changes nothing of it and a frame
\* changes it only by one updateLaunch() call.
C7_LaunchSuppressesReact ==
  /\ [](/\ airplane.launched \in BOOLEAN
        /\ airplane.launchPhase \in { "fly", "bounce" }
        /\ Cardinality({ k \in 1 .. 3 : << Idle, Flying, Returning >>[k] }) = 1)
  /\ [][ (airplane.launched /\ lastOp'.op = "react") => airplane' = airplane ]_vars
  /\ [][ (airplane.launched /\ lastOp'.op \in { "animate", "start" }) =>
            /\ launchCalls' = launchCalls + 1
            /\ airplane'.launchProgress + airplane'.bounceProgress
                  > airplane.launchProgress + airplane.bounceProgress
            /\ (~airplane'.launched => /\ airplane'.x = airplane.homeX
                                       /\ airplane'.y = airplane.homeY)
        ]_vars

\* react() has just been called on an airplane that is on its way back
C7_Witness ==
  /\ lastOp.op = "react"
  /\ Returning
  /\ airplane.bounceProgress > 500
  /\ airplane.x # airplane.homeX

-----------------------------------------------------------------------------
(* SpecUpdate: Particle.update and Streamline.update as functions of their *)
(* inputs.  The particle starts anywhere, inside the walls or not, the     *)
(* airplane anywhere around it, and update is called MaxUpdates times.     *)

MaxUpdates == 2

UpdateWinds == { 10, 50, 100 }
\* display sizes <<width, height>>, down to a height of 70 px: the least
\* height at which the two wall corrections of Particle.update (each up to
\* 10 px inwards from a margin of 30 px) cannot push past each other
UpdateSizes == { << 60000, 35000 >>, << 42000, 26000 >>, << 42000, 7000 >> }

\* where the particle starts, relative to the airplane (x) and in the
\* tunnel (y, from above the top wall to below the bottom wall)
StartDX == { -4000, 1500, 4000 }
StartY(H) == { -5000, 1000, H \div 2 - 2500, H \div 2 + 2500, H - 1000, H + 5000 }
PlaneXs(W) == { (W * 38) \div 100, W + 500, 500 }
PlaneDY == { -1500, 0, 1500 }

\* sines and draws of one update call
UpdateInputs ==
  { << Frame(0, j, -j, j), Draw(k, k, k) >> : j \in { -1000, 0, 1000 }, k \in { 0, 999 } }

\* update() called on particles[0] / streamlines[0]
CallUpdate(fr, d) ==
  /\ particle' =
       IF engine = "particle"
         THEN ParticleUpdate(particle, windSpeed, type, PlanePos(airplane, type),
                             displayWidth, displayHeight, fr.j1, fr.j2, d)
         ELSE StreamlineUpdate(particle, windSpeed, type, airplane.x, airplane.y,
                               displayWidth, displayHeight, fr.n1, d)
  /\ Did("update", 0, FALSE)
  /\ UNCHANGED << engine, type, windSpeed, visible, isHovered, displayWidth,
                  displayHeight, airplane, poolSize, pool, serial, sparkles,
                  pending, animationId, launchCalls >>

InitUpdate ==
  PageIdle /\
  \E e \in Engines, t \in Types, w \in UpdateWinds, size \in UpdateSizes :
    \E px \in PlaneXs(size[1]), dy \in PlaneDY, dx \in StartDX,
       y \in StartY(size[2]), k \in { 0, 999 } :
      LET W == size[1]
          H == size[2]
          d == Draw(k, 500, k)
      IN  /\ engine = e
          /\ type = t
          /\ windSpeed = w
          /\ visible = TRUE
          /\ isHovered = FALSE
          /\ displayWidth = W
          /\ displayHeight = H
          /\ airplane = [ PlaneNew(IF e = "particle" THEN HomeXA(W) ELSE HomeXB(W),
                                   HomeY(H))
                            EXCEPT !.x = px, !.y = HomeY(H) + dy ]
          /\ pool = IF e = "particle" THEN FillParticles(<< >>, Target(w), 0)
                                      ELSE BuildStreamlines(0)
          /\ poolSize = Len(pool)
          /\ serial = Len(pool)
          /\ particle = IF e = "particle"
                          THEN [ ParticleNew(W, H, d) EXCEPT !.x = px + dx, !.y = y ]
                          ELSE [ StreamlineNew(W, H, d) EXCEPT !.x = px + dx, !.y = y ]
          /\ sparkles = << >>
          /\ pending = 0
          /\ animationId = "null"
          /\ lastOp = [ op |-> "new", arg |-> 0, ret |-> FALSE ]
          /\ launchCalls = 0
          /\ steps = 0

NextUpdate ==
  /\ steps < MaxUpdates
  /\ \E i \in UpdateInputs : CallUpdate(i[1], i[2])
  /\ steps' = steps + 1
  /\ UNCHANGED page

SpecUpdate == InitUpdate /\ [][NextUpdate]_vars

\* the wall margin of the engine
WallMargin == IF engine = "particle" THEN ParticleMargin ELSE StreamlineMargin

-----------------------------------------------------------------------------
(* SpecRun: one particle or streamline followed over MaxRun updates, from  *)
(* the places where something happens to it: next to the airplane, on the  *)
(* radius of its deflection zone, and just before the exit.                *)

MaxRun == 100

RunWinds == { 10, 30, 100 }

\* the display size of a tunnel whose canvas is laid out at the default size
RunSize(e) == IF e = "particle" THEN << DefaultWidthA, DefaultHeightA >>
                                ELSE << DefaultWidthB, DefaultHeightB >>

\* the radius inside which Streamline.update pushes a streamline away:
\* deflectRadius (dart, glider), bluntRadius (tumbler)
ZoneRadius(t) ==
  CASE t = "dart" -> HalfWidthB(t) \div 2
    [] t = "glider" -> (Max(HalfWidthB(t), HalfHeightB(t)) * 6) \div 10
    [] OTHER -> (Max(HalfWidthB(t), HalfHeightB(t)) * 75) \div 100

\* starts <<relX, relY>> at a distance of exactly ZoneRadius(t) from the
\* airplane, in front of it, above and below it and behind it
ZoneStarts(t) ==
  CASE t = "dart" -> { << 4950, 0 >>, << -4950, 0 >>, << 3960, 2970 >>,
                       << -3960, -2970 >> }
    [] t = "glider" -> { << 0, 7260 >>, << 0, -7260 >>, << -2000, 6980 >>,
                         << -2000, -6980 >>, << 2000, 6980 >> }
    [] OTHER -> { << 1000, 5268 >>, << 1000, -5268 >>, << -1000, 5268 >>,
                  << 5362, 0 >>, << -5362, 0 >> }

\* where the particle starts: <<x, y>>
RunStarts(e, t, W, px, py) ==
  IF e = "particle"
    THEN { << W + 900, py + 1000 >>, << px - 9000, py + 1000 >>,
           << 0, py - 2000 >>, << px - 3000, py + 2000 >> }
    ELSE { << px + z[1], py + z[2] >> : z \in ZoneStarts(t) }
           \cup { << -1900, py + 9000 >>, << W - 1000, py - 9000 >>,
                  << px + 12000, py + 1000 >>, << px + 3000, py + 500 >> }

\* the readings of an update call
RunInputs == { << Frame(250, 1000, -1000, 1000), Draw(999, 500, 999) >> }

InitRun ==
  PageIdle /\
  \E e \in Engines, t \in Types, w \in RunWinds, k \in { 0, 999 } :
    LET W == RunSize(e)[1]
        H == RunSize(e)[2]
        hx == IF e = "particle" THEN HomeXA(W) ELSE HomeXB(W)
        d == Draw(500, 500, k)
    IN  \E st \in RunStarts(e, t, W, hx, HomeY(H)) :
          /\ engine = e
          /\ type = t
          /\ windSpeed = w
          /\ visible = TRUE
          /\ isHovered = FALSE
          /\ displayWidth = W
          /\ displayHeight = H
          /\ airplane = PlaneNew(hx, HomeY(H))
          /\ pool = IF e = "particle" THEN FillParticles(<< >>, Target(w), 0)
                                      ELSE BuildStreamlines(0)
          /\ poolSize = Len(pool)
          /\ serial = Len(pool)
          /\ particle =
               IF e = "particle"
                 THEN [ ParticleNew(W, H, d) EXCEPT !.x = st[1], !.y = st[2],
                                                    !.originY = st[2] ]
                 ELSE [ StreamlineNew(W, H, d) EXCEPT !.x = st[1], !.y = st[2],
                                                      !.baseY = st[2] ]
          /\ sparkles = << >>
          /\ pending = 0
          /\ animationId = "null"
          /\ lastOp = [ op |-> "new", arg |-> 0, ret |-> FALSE ]
          /\ launchCalls = 0
          /\ steps = 0

NextRun ==
  /\ steps < MaxRun
  /\ \E i \in RunInputs : CallUpdate(i[1], i[2])
  /\ steps' = steps + 1
  /\ UNCHANGED page

SpecRun == InitRun /\ [][NextRun]_vars

-----------------------------------------------------------------------------
(* Claims about the flow of the particles, under SpecRun *)

\* the sample update() appends: where the streamline is after the step
Sample(s) == [ x |-> s.x, y |-> s.y, r |-> s.r, g |-> s.g, b |-> s.b ]

\* C12: no update leaves a particle beyond the exit (x > width + 10 px in
\* the particle engine, x < -20 px in the streamline engine): an update that
\* takes it there puts it back at the spawn edge on the other side (within
\* 40 px of x = 0, resp. of x = width), a streamline with an empty trail, to
\* which the next update appends the first sample.
C12_ExitRecyclesWithEmptyTrail ==
  [][ lastOp'.op = "update" =>
        IF engine = "streamline"
          THEN /\ particle'.x >= -2000
               /\ particle'.x > particle.x =>
                    /\ particle.x < 0
                    /\ particle'.x >= displayWidth
                    /\ particle'.x < displayWidth + 4000
                    /\ particle'.points = << >>
               /\ (particle.points = << >> /\ particle'.x < particle.x) =>
                    particle'.points = << Sample(particle') >>
          ELSE /\ particle'.x <= displayWidth + 1000
               /\ particle'.x < particle.x =>
                    /\ particle.x > displayWidth
                    /\ particle'.x > -4000
                    /\ particle'.x <= 0
    ]_vars

\* a streamline that had a trail has just been recycled at the right edge
C12_Witness ==
  /\ engine = "streamline"
  /\ lastOp.op = "update"
  /\ steps > 10
  /\ particle.points = << >>
  /\ particle.x >= displayWidth

\* C19: after every update a streamline's trail holds at most maxPoints
\* samples.  An update that does not recycle the streamline appends exactly
\* one sample, the new position and colour, at the tail, and drops exactly
\* the oldest sample when the trail would exceed the cap, the others keeping
\* their order; an update that recycles it leaves the trail empty.  The cap
\* itself never changes.
C19_TrailNeverExceedsCap ==
  /\ [](engine = "streamline" => Len(particle.points) <= particle.maxPoints)
  /\ [][ (lastOp'.op = "update" /\ engine = "streamline") =>
            /\ particle'.maxPoints = particle.maxPoints
            /\ particle'.points =
                 IF particle'.x > particle.x THEN << >>
                 ELSE IF Len(particle.points) < particle.maxPoints
                   THEN Append(particle.points, Sample(particle'))
                   ELSE Append(Tail(particle.points), Sample(particle'))
        ]_vars

\* the trail is at its cap of 59 samples and the oldest has been dropped
C19_Witness ==
  /\ engine = "streamline"
  /\ lastOp.op = "update"
  /\ particle.maxPoints = 59
  /\ Len(particle.points) = 59
  /\ steps > 62

OnZoneRadius ==
  /\ engine = "streamline"
  /\ Dist(particle.x - airplane.x, particle.y - airplane.y) = ZoneRadius(type)

\* the streamline's speed for the update: speed * (windSpeed / 3)
Spd == (particle.speed * windSpeed) \div 30

-----------------------------------------------------------------------------
(* SpecPage: one of the page's three tunnels, with or without its canvas,  *)
(* under the events of the page: the DOMContentLoaded handler, slider      *)
(* input, button clicks, hover, the IntersectionObserver, animation frames *)
(* and the resize events of the window with their debounce timer.  Time    *)
(* advances in steps of TimeSteps ms and the timer's callback runs when it *)
(* is due: time does not advance past a due timer.                         *)

MaxEvents == 4

\* the delay of the debounce timer, ms
DebounceDelay == 150

TimeSteps == { 50, 100 }
PageWinds == { 10, 100 }
PageFrame == << Frame(250, 1000, -1000, 1000), Draw(999, 500, 999) >>
PageRects == { << 60000, 35000 >>, << 30000, 20000 >> }

\* new WindTunnel(canvasId, type) when getElementById finds no canvas: the
\* constructor returns with this.canvas = null and no other field set; the
\* fields it never set are held at zero, false and empty
ConstructInert(e, t) ==
  /\ engine = e
  /\ type = t
  /\ windSpeed = 0
  /\ visible = FALSE
  /\ isHovered = FALSE
  /\ displayWidth = 0
  /\ displayHeight = 0
  /\ airplane = PlaneNew(0, 0)
  /\ pool = << >>
  /\ poolSize = 0
  /\ serial = 0
  /\ particle = IF e = "particle" THEN ParticleNew(0, 0, Draw(0, 0, 0))
                                  ELSE StreamlineNew(0, 0, Draw(0, 0, 0))
  /\ sparkles = << >>
  /\ pending = 0
  /\ animationId = "null"
  /\ lastOp = [ op |-> "new", arg |-> 0, ret |-> FALSE ]
  /\ launchCalls = 0
  /\ steps = 0

\* console.warn calls of the constructor: the particle engine warns of a
\* missing canvas (line 656), the streamline engine returns silently (1358)
Warned(e, c) == IF ~c /\ e = "particle" THEN 1 ELSE 0

\* a wiring that gives every tunnel its listeners, canvas or not
WiredAlways(c, inert) == TRUE

\* whether the page wires a tunnel: listeners, observer, resize and the first
\* animate() go to the tunnels of tunnels.filter(t => t.canvas), and to the
\* slider and button of a tunnel unless !tunnel.canvas; the canvases of the
\* other tunnels play no part
Wired(c, inert) == c

\* a resize handler that leaves an armed timer as it is
RearmIfIdle(timer) == IF timer >= 0 THEN timer ELSE DebounceDelay

\* clearTimeout(resizeTimer); resizeTimer = setTimeout(..., 150): whatever
\* the old timer, the only timer left is due in 150 ms
Rearm(timer) == DebounceDelay

InitPage ==
  \E e \in Engines, t \in Types, c \in BOOLEAN, n \in 0 .. 2 :
    /\ canvas = c
    /\ siblingsInert = n
    /\ warnings = Warned(e, c)
    /\ resizeTimer = -1
    /\ sinceResize = -1
    /\ burst = 0
    /\ resizeCalls = 0
    /\ lastEvent = "none"
    /\ IF c THEN Construct(e, t, << 60000, 35000 >>, Draw(500, 500, 500))
            ELSE ConstructInert(e, t)

IsWired == Wired(canvas, siblingsInert)

\* an event that reaches the tunnel only through its methods
Event(name) ==
  /\ lastEvent # "none"
  /\ steps < MaxEvents
  /\ steps' = steps + 1
  /\ lastEvent' = name
  /\ UNCHANGED << canvas, siblingsInert, warnings, resizeTimer, sinceResize,
                  burst, resizeCalls >>

\* the end of the DOMContentLoaded handler: the listeners are in place and
\* animate() is called on every active tunnel (lines 1020, 1495)
Load ==
  /\ lastEvent = "none"
  /\ lastEvent' = "load"
  /\ steps' = steps + 1
  /\ UNCHANGED << canvas, siblingsInert, warnings, resizeTimer, sinceResize,
                  burst, resizeCalls >>
  /\ IF IsWired THEN StartAnimate(PageFrame[1], PageFrame[2])
                ELSE UNCHANGED tunnel

\* requestAnimationFrame delivers a pending frame
FrameCallback ==
  /\ Event("frame")
  /\ Tick(PageFrame[1], PageFrame[2])

\* an input event of the tunnel's slider (lines 946-955; the streamline
\* page has no slider listener)
SliderInput(v) ==
  /\ Event("input")
  /\ IF IsWired /\ engine = "particle" THEN SetWindSpeed(v)
                                       ELSE UNCHANGED tunnel

\* a click on the tunnel's launch button (lines 964-984)
ButtonClick(f) ==
  /\ Event("click")
  /\ IF IsWired /\ engine = "particle" THEN LaunchClick(f)
                                       ELSE UNCHANGED tunnel

\* mouseenter (TRUE) or mouseleave (FALSE) over the tunnel's place
MouseOver(b) ==
  /\ Event("mouse")
  /\ IF IsWired THEN Hover(b) ELSE UNCHANGED tunnel

\* the IntersectionObserver reports the tunnel's place
Intersect(b) ==
  /\ Event("intersect")
  /\ IF IsWired THEN SetVisible(b) ELSE UNCHANGED tunnel

\* a resize event of the window (lines 1011-1017, 1489-1493)
WindowResize ==
  /\ lastEvent # "none"
  /\ lastEvent' = "resize"
  /\ resizeTimer' = Rearm(resizeTimer)
  /\ sinceResize' = 0
  /\ burst' = IF resizeTimer >= 0 THEN Min(burst + 1, 3) ELSE 1
  /\ resizeCalls' = 0
  /\ UNCHANGED << canvas, siblingsInert, warnings, tunnel, steps >>

\* the timer's callback: resize() on every active tunnel
Timeout(rect, d) ==
  /\ resizeTimer = 0
  /\ steps < MaxEvents
  /\ steps' = steps + 1
  /\ lastEvent' = "timeout"
  /\ resizeTimer' = -1
  /\ resizeCalls' = resizeCalls + 1
  /\ UNCHANGED << canvas, siblingsInert, warnings, sinceResize, burst >>
  /\ IF IsWired THEN Resize(rect, d) ELSE UNCHANGED tunnel

\* dt ms pass without an event
Advance(dt) ==
  /\ lastEvent # "none"
  /\ resizeTimer = -1 \/ dt <= resizeTimer
  /\ sinceResize >= 0
  /\ sinceResize < 2 * DebounceDelay
  /\ lastEvent' = "time"
  /\ resizeTimer' = IF resizeTimer = -1 THEN -1 ELSE resizeTimer - dt
  /\ sinceResize' = Min(sinceResize + dt, 2 * DebounceDelay)
  /\ UNCHANGED << canvas, siblingsInert, warnings, burst, resizeCalls, tunnel,
                  steps >>

NextPage ==
  \/ Load
  \/ FrameCallback
  \/ \E v \in PageWinds : SliderInput(v)
  \/ \E s \in SparkleDraws : ButtonClick([ i \in 1 .. SparkleBurst |-> s ])
  \/ \E b \in BOOLEAN : MouseOver(b)
  \/ \E b \in BOOLEAN : Intersect(b)
  \/ WindowResize
  \/ \E rect \in PageRects : Timeout(rect, Draw(500, 500, 500))
  \/ \E dt \in TimeSteps : Advance(dt)

SpecPage == InitPage /\ [][NextPage]_vars

-----------------------------------------------------------------------------
(* Claims about the page, under SpecPage *)

\* C14: a tunnel constructed with no canvas is inert.  The particle engine's
\* constructor has warned once; no frame is ever scheduled for the tunnel and
\* no method of it is ever called; no slider, button, hover, visibility,
\* resize or frame event changes anything of it; and a tunnel that has its
\* canvas runs its frame loop from the load on, however many of the other
\* tunnels lack theirs.
C14_TunnelWithoutCanvasIsInert ==
  /\ [](~canvas => /\ pending = 0
                   /\ animationId = "null"
                   /\ lastOp.op = "new")
  /\ [](~canvas /\ engine = "particle" => warnings = 1)
  /\ [][~canvas => UNCHANGED tunnel]_vars
  /\ [](canvas /\ lastEvent # "none" => pending = 1)

\* with no canvas, the tunnel has been through the load, a window resize
\* and the timer's callback, while both other tunnels have their canvas
C14_Witness ==
  /\ ~canvas
  /\ siblingsInert = 0
  /\ lastEvent = "timeout"
  /\ steps = 2
  /\ lastOp.op = "new"

\* C15: the timer's callback, which calls resize() on every active tunnel,
\* runs only when exactly 150 ms have passed since the last resize event of
\* the window and is the only run since that event; resize() is called by
\* nothing else; while fewer than 150 ms have passed since the last event no
\* run has been made and the timer is due 150 ms after that event; once more
\* than 150 ms have passed exactly one run has been made.
C15_OneResizeAfterBurst ==
  /\ [][lastEvent' = "timeout" =>
          /\ sinceResize = DebounceDelay
          /\ resizeCalls = 0
          /\ resizeCalls' = 1
          /\ canvas => lastOp'.op = "resize"
      ]_vars
  /\ [][(lastOp'.op = "resize" /\ lastOp.op # "resize") =>
          lastEvent' = "timeout"]_vars
  /\ [](sinceResize >= 0 /\ sinceResize < DebounceDelay =>
          /\ resizeCalls = 0
          /\ resizeTimer = DebounceDelay - sinceResize)
  /\ [](sinceResize > DebounceDelay => resizeCalls = 1 /\ resizeTimer = -1)

\* the callback has run once, 150 ms after the third event of a burst, and
\* has resized the tunnel
C15_Witness ==
  /\ lastEvent = "timeout"
  /\ burst = 3
  /\ resizeCalls = 1
  /\ sinceResize = DebounceDelay
  /\ canvas
  /\ lastOp.op = "resize"
  /\ displayWidth = 30000


-----------------------------------------------------------------------------
(* SpecWalls: a tunnel whose first particle starts anywhere between the    *)
(* walls, under frames, setWindSpeed and resizes that keep or shrink the   *)
(* height of the display.                                                  *)

MaxWallSteps == 3

\* where _fillParticles / _buildStreamlines place the particle: at the top,
\* in the middle, at the bottom of the band they fill
WallDraws == { Draw(500, 0, 500), Draw(500, 500, 500), Draw(500, 999, 500) }
WallRects == { << 60000, 35000 >>, << 60000, 20000 >> }
WallWinds == { 10, 100 }
WallFrame == << Frame(250, 1000, -1000, 1000), Draw(999, 500, 999) >>

InitWalls ==
  /\ PageIdle
  /\ \E e \in Engines, t \in Types, d \in WallDraws :
       Construct(e, t, << 60000, 35000 >>, d)

WallBudget == steps < MaxWallSteps /\ steps' = steps + 1 /\ UNCHANGED page

NextWalls ==
  \/ WallBudget /\ StartAnimate(WallFrame[1], WallFrame[2])
  \/ WallBudget /\ Tick(WallFrame[1], WallFrame[2])
  \/ WallBudget /\ \E v \in WallWinds : SetWindSpeed(v)
  \/ WallBudget /\ \E rect \in WallRects, d \in WallDraws : Resize(rect, d)

SpecWalls == InitWalls /\ [][NextWalls]_vars

-----------------------------------------------------------------------------
(* Claims about the walls, under SpecWalls *)

\* C21: in every reachable state of a tunnel, after construction, frames,
\* setWindSpeed calls and resize calls, the particle's y lies within
\* [wallMargin, displayHeight - wallMargin] for the current height.
C21_PoolStaysBetweenWalls ==
  /\ particle.y >= WallMargin
  /\ particle.y <= displayHeight - WallMargin

\* a resize of the particle engine has shrunk the display and left the
\* particle below the new lower wall
C21_Witness ==
  /\ engine = "particle"
  /\ lastOp.op = "resize"
  /\ displayHeight = 20000
  /\ particle.y > displayHeight - WallMargin


-----------------------------------------------------------------------------
(* SpecLaunch: the airplane of the particle engine under launch,           *)
(* updateLaunch and react calls in any order, with up to MaxLaunchCalls    *)
(* resize and setWindSpeed calls on its tunnel in between.                 *)

MaxLaunchCalls == 2

LaunchWinds == { 10, 100 }
LaunchRects == { << 42000, 26000 >> }

InitLaunch ==
  /\ PageIdle
  /\ \E t \in Types :
       Construct("particle", t, << 60000, 35000 >>, Draw(500, 500, 500))

NextLaunch ==
  \/ /\ \E theta \in Thetas : CallReact(windSpeed, theta)
     /\ UNCHANGED << steps, page >>
  \/ /\ CallLaunch(displayWidth)
     /\ UNCHANGED << steps, page >>
  \/ /\ CallUpdateLaunch
     /\ UNCHANGED << steps, page >>
  \/ /\ steps < MaxLaunchCalls
     /\ \E rect \in LaunchRects : Resize(rect, Draw(0, 0, 0))
     /\ steps' = steps + 1
     /\ UNCHANGED page
  \/ /\ steps < MaxLaunchCalls
     /\ \E v \in LaunchWinds : SetWindSpeed(v)
     /\ steps' = steps + 1
     /\ UNCHANGED page

SpecLaunch == InitLaunch /\ [][NextLaunch]_vars

-----------------------------------------------------------------------------
(* Claims about the launch state, under SpecLaunch *)

\* C22: the launch state only moves Idle -> Flying -> Returning -> Idle.
\* Whatever is called (launch, updateLaunch, react, resize, setWindSpeed),
\* Idle is left only to Flying and only by a launch call, Flying is left only
\* to Returning and Returning only to Idle, both by an updateLaunch call.
C22_LaunchStateCycle ==
  [][ /\ (Idle /\ ~Idle') => (Flying' /\ lastOp'.op = "launch")
      /\ (Flying /\ ~Flying') => (Returning' /\ lastOp'.op = "updateLaunch")
      /\ (Returning /\ ~Returning') => (Idle' /\ lastOp'.op = "updateLaunch")
    ]_vars

\* the airplane has landed after a whole launch during which its tunnel was
\* resized and its wind speed set
C22_Witness ==
  /\ Idle
  /\ lastOp.op = "updateLaunch"
  /\ launchCalls >= 75
  /\ steps = MaxLaunchCalls
  /\ displayWidth = 42000
  /\ airplane.tunnelWidth = 60000
  /\ windSpeed = 100


-----------------------------------------------------------------------------
(* Claims about the tumbler's deflection, under SpecUpdate *)

\* the streamline's place relative to the airplane: <<relX, relY>>
Rel == << particle.x - airplane.x, particle.y - airplane.y >>

\* bluntRadius of the tumbler
BluntRadius == (Max(HalfWidthB("tumbler"), HalfHeightB("tumbler")) * 75) \div 100

\* Streamline.update takes the leading-side branch of the tumbler: the
\* streamline is before the body (nearFront and nearBody) or inside
\* bluntRadius, and relX > 0
LeadingSide ==
  /\ engine = "streamline"
  /\ type = "tumbler"
  /\ LET pw == HalfWidthB(type)
         ph == HalfHeightB(type)
         nearFront == Rel[1] * 10 < pw * 7 /\ Rel[1] * 10 > -(pw * 3)
         nearBody == Abs(Rel[2]) * 10 < ph * 8
     IN  /\ (nearFront /\ nearBody) \/ Dist(Rel[1], Rel[2]) < BluntRadius
         /\ Rel[1] > 0

\* the lateral displacement dy the next update computes before the walls
\* are applied; on the leading side it depends on no clock or random reading
FlowDY ==
  IF engine = "streamline"
    THEN StreamlineFlow(particle, windSpeed, type, airplane.x, airplane.y, 0,
                        Draw(0, 0, 0)).dy
    ELSE 0

\* C23: wherever a streamline of the tumbler takes the leading-side branch,
\* its lateral displacement points away from the airplane's centre line:
\* dy >= 0 above relY = 0 (relY > 0) and dy <= 0 below it.
C23_LeadingSidePushedOutward ==
  LeadingSide => /\ Rel[2] > 0 => FlowDY >= 0
                 /\ Rel[2] < 0 => FlowDY <= 0

\* a streamline before the tumbler's body and beyond bluntRadius, on the
\* relY > 0 side, that an update has just moved towards the centre line
C23_Witness ==
  /\ LeadingSide
  /\ lastOp.op = "update"
  /\ Dist(Rel[1], Rel[2]) > BluntRadius + 100
  /\ Rel[2] > 0
  /\ FlowDY < 0


-----------------------------------------------------------------------------
(* SpecLoop: the frame loop of a particle-engine tunnel: animate() started *)
(* when no frame is requested, frames, stop(), the observer and the launch *)
(* button, up to MaxLoopSteps calls.                                       *)

MaxLoopSteps == 5

LoopFrame == << Frame(250, 1000, -1000, 1000), Draw(999, 500, 999) >>

InitLoop ==
  /\ PageIdle
  /\ \E t \in Types :
       Construct("particle", t, << 60000, 35000 >>, Draw(500, 500, 500))

LoopBudget == steps < MaxLoopSteps /\ steps' = steps + 1 /\ UNCHANGED page

NextLoop ==
  \/ LoopBudget /\ StartAnimate(LoopFrame[1], LoopFrame[2])
  \/ LoopBudget /\ Tick(LoopFrame[1], LoopFrame[2])
  \/ LoopBudget /\ Stop
  \/ LoopBudget /\ \E b \in BOOLEAN : SetVisible(b)
  \/ LoopBudget /\ \E s \in SparkleDraws :
                     LaunchClick([ i \in 1 .. SparkleBurst |-> s ])

SpecLoop == InitLoop /\ [][NextLoop]_vars

-----------------------------------------------------------------------------
(* Claims about the frame loop, under SpecLoop *)

\* C24: stop() leaves no frame pending and no frame id stored, whether the
\* tunnel is visible or not; and from a state with no frame id stored, that
\* is until animate() is called again, no frame of the tunnel runs.
C24_StopEndsTheLoop ==
  /\ [](lastOp.op = "stop" => pending = 0 /\ animationId = "null")
  /\ [](animationId = "null" => pending = 0)
  /\ [][animationId = "null" => lastOp'.op # "animate"]_vars

\* stop() has cancelled the pending frame of a running tunnel that was not
\* visible
C24_Witness ==
  /\ lastOp = [ op |-> "stop", arg |-> 0, ret |-> TRUE ]
  /\ ~visible
  /\ pending = 0
  /\ steps >= 3


-----------------------------------------------------------------------------
(* SpecLive: a particle-engine tunnel in use, with a dart or a glider on a *)
(* canvas 10 px wide (the narrower the canvas, the sooner a particle is    *)
(* back where it was).  Frames, the observer and the launch button act in  *)
(* any order and without bound; setWindSpeed, resize and hover changes     *)
(* happen up to MaxLiveCalls times.  Fairness: a tunnel that is visible    *)
(* again and again is found visible by a frame again and again, the first  *)
(* animate() of the page included; requestAnimationFrame runs every frame  *)
(* it was asked for, and the observer's callbacks and the frames belong to *)
(* the same rendering loop of the browser.                                 *)

MaxLiveCalls == 1

\* the readings of a frame: every sine at a zero crossing, so that an idle
\* airplane rests and a particle keeps its row; the particle is placed at the
\* left edge of the top row
LiveFrame == << Frame(0, 0, 0, 0), Draw(0, 0, 999) >>
LiveWinds == { 100 }
LiveTypes == { "dart", "glider" }
LiveSize == << 1000, 35000 >>
LiveRects == { << 500, 35000 >> }

InitLive ==
  /\ PageIdle
  /\ \E t \in LiveTypes :
       Construct("particle", t, LiveSize, LiveFrame[2])

LiveStart ==
  /\ StartAnimate(LiveFrame[1], LiveFrame[2])
  /\ UNCHANGED << steps, page >>

LiveTick ==
  /\ Tick(LiveFrame[1], LiveFrame[2])
  /\ UNCHANGED << steps, page >>

\* a frame that finds the tunnel visible
LiveVisibleFrame == visible /\ (LiveStart \/ LiveTick)

NextLive ==
  \/ LiveStart
  \/ LiveTick
  \/ /\ \E b \in BOOLEAN : SetVisible(b)
     /\ UNCHANGED << steps, page >>
  \/ /\ \E s \in SparkleDraws : LaunchClick([ i \in 1 .. SparkleBurst |-> s ])
     /\ UNCHANGED << steps, page >>
  \/ /\ steps < MaxLiveCalls
     /\ Hover(~isHovered)
     /\ steps' = steps + 1
     /\ UNCHANGED page
  \/ /\ steps < MaxLiveCalls
     /\ \E v \in LiveWinds : SetWindSpeed(v)
     /\ steps' = steps + 1
     /\ UNCHANGED page
  \/ /\ steps < MaxLiveCalls
     /\ \E rect \in LiveRects : Resize(rect, Draw(0, 0, 0))
     /\ steps' = steps + 1
     /\ UNCHANGED page

SpecLive ==
  /\ InitLive
  /\ [][NextLive]_vars
  /\ SF_vars(LiveVisibleFrame)


-----------------------------------------------------------------------------
(* Claims about a tunnel in use, under SpecLive *)

\* C25: with launches started by the button only, the tunnel never holds
\* more than 25 sparkles, and an airplane that is not launched has no
\* sparkle left: the burst of a launch is gone before the next can start.
C25_AtMostOneBurstOfSparkles ==
  /\ Len(sparkles) <= SparkleBurst
  /\ ~airplane.launched => sparkles = << >>

\* a launch started by the button has run its 75 frames or more and has
\* landed: the airplane is idle, the button can start the next launch, and
\* none of the 25 sparkles of the burst is left
C25_Witness ==
  /\ ~airplane.launched
  /\ airplane.launchPhase = "bounce"
  /\ airplane.bounceProgress >= 1000
  /\ launchCalls >= 75
  /\ sparkles = << >>
  /\ lastOp.op = "animate"

\* C26: if the tunnel is visible again and again, a launched airplane
\* eventually is not launched any more; and no step taken while the tunnel
\* is not visible changes the launch: it stays launched, in its phase, with
\* its progress.
C26_LaunchEventuallyLands ==
  /\ ([]<>visible) => (airplane.launched ~> ~airplane.launched)
  /\ [][ (airplane.launched /\ ~visible) =>
           /\ airplane'.launched
           /\ airplane'.launchPhase = airplane.launchPhase
           /\ airplane'.launchProgress = airplane.launchProgress
           /\ airplane'.bounceProgress = airplane.bounceProgress
       ]_vars

\* the airplane has landed at its new home after a launch during which its
\* tunnel was resized
C26_Witness ==
  /\ ~airplane.launched
  /\ lastOp.op = "animate"
  /\ launchCalls >= 75
  /\ airplane.tunnelWidth = 1000
  /\ displayWidth = 500
  /\ airplane.x = airplane.homeX

====
